---- MODULE Spec2Model ----
(***************************************************************************)
(* Model of scripts/read_last_log.py: reading the located agent log files  *)
(* line by line (read_all_entries), merging them by timestamp, and         *)
(* rendering the merged timeline in Grouped or Timeline mode (main,        *)
(* print_agent_header, print_entry) with the summary footer.               *)
(***************************************************************************)
EXTENDS Integers, Sequences, FiniteSets, TLC

\* ------------------------------------------------------------------ bounds
MaxFiles == 2      \* located files of the conversation
MaxLines == 2      \* lines held by all located files together
MaxTime  == 2      \* distinct instants a timestamp string can name
MaxText  == 5      \* characters of a text handed to truncate
MaxLenArg == 5     \* greatest max_len handed to truncate
MaxStoreFiles == 3 \* files in the agent-log directory
MaxMtime == 1      \* greatest modification time of a file, from -1

\* ------------------------------------------------------------- JSON values
\* A JSON value is [j |-> tag, v |-> payload].  "absent" is a key the object
\* does not carry; "isostr" is a string in ISO date-time form whose payload
\* keeps the instant and the zone suffix ("" or "Z"); "str" is any other
\* string; "num" is a number; "null" is JSON null (Python None).
JAbsent == [j |-> "absent", v |-> ""]
JNull == [j |-> "null", v |-> ""]
JStr(s) == [j |-> "str", v |-> s]
JNum(n) == [j |-> "num", v |-> n]
JIso(t, zone) == [j |-> "isostr", v |-> [t |-> t, zone |-> zone]]

IsStr(x) == x.j \in {"str", "isostr"}

\* Python truthiness of a scalar JSON value.
Truthy(x) ==
    CASE x.j = "absent" -> FALSE
      [] x.j = "null" -> FALSE
      [] x.j = "str" -> x.v # ""
      [] x.j = "num" -> x.v # 0
      [] OTHER -> TRUE

\* dict.get(key, default) on a field of a parsed object.
Get(field, default) == IF field.j = "absent" THEN default ELSE field

\* AGENT_COLORS keys: the producer names the located files carry.
AGENT_COLORS == <<"preprocessor", "codegen", "explainer", "refiner">>

\* ------------------------------------------------------------------- lines
Obj(ts, agent, type, source, prompt, response, message) ==
    [timestamp |-> ts, agent_name |-> agent, type |-> type, source |-> source,
     prompt |-> prompt, response |-> response, message |-> message]

PlainObj(ts) == Obj(ts, JAbsent, JAbsent, JAbsent, JAbsent, JAbsent, JStr("m"))

EmptyObj == Obj(JAbsent, JAbsent, JAbsent, JAbsent, JAbsent, JAbsent, JAbsent)

\* The JSON objects a line can hold.
Objects ==
    {PlainObj(JIso(t, "")) : t \in 1..MaxTime}
    \cup {PlainObj(JIso(t, "Z")) : t \in 1..MaxTime}
    \cup {Obj(JIso(1, ""), JAbsent, JStr("log"), JStr("LLM"), JStr("p"), JStr("r"), JAbsent),
          Obj(JAbsent, JAbsent, JAbsent, JStr("LLM"), JAbsent, JAbsent, JStr("m")),
          PlainObj(JNum(5)),
          Obj(JStr("zzz"), JStr(""), JAbsent, JAbsent, JStr("p"), JStr("r"), JStr("m")),
          Obj(JIso(MaxTime, ""), JNull, JAbsent, JStr("app"), JAbsent, JAbsent, JStr("m"))}

\* A line of a log file: blank, not JSON at all, or a JSON text whose value
\* is an object, the empty object, or a number.
Lines ==
    {[kind |-> "blank"], [kind |-> "garbage"], [kind |-> "number"],
     [kind |-> "object", obj |-> EmptyObj]}
    \cup {[kind |-> "object", obj |-> o] : o \in Objects}

\* parse_log_entry: None for a blank line and for a JSONDecodeError, else
\* whatever json.loads returns, object or not.
parse_log_entry(line) ==
    CASE line.kind = "blank" -> [some |-> FALSE]
      [] line.kind = "garbage" -> [some |-> FALSE]
      [] line.kind = "number" -> [some |-> TRUE, isdict |-> FALSE, truthy |-> TRUE]
      [] OTHER -> [some |-> TRUE, isdict |-> TRUE,
                   truthy |-> \E k \in DOMAIN line.obj : line.obj[k].j # "absent",
                   obj |-> line.obj]

\* ------------------------------------------------------------ timestamps
\* datetime values as the sort compares them: an instant plus whether the
\* value carries a zone (aware) or not (naive).  datetime.min is naive and
\* precedes every instant a timestamp string can name.
DatetimeMin == [aware |-> FALSE, t |-> 0]

\* ts.replace("Z", "+00:00") on an ISO string.
ReplaceZ(ts) ==
    IF ts.j = "isostr"
    THEN [ts EXCEPT !.v.zone = IF @ = "Z" THEN "+00:00" ELSE @]
    ELSE ts

\* datetime.fromisoformat: an offset makes the result aware, no offset
\* leaves it naive; any other string is a ValueError.
fromisoformat(s) ==
    IF s.j = "isostr"
    THEN [ok |-> TRUE, dt |-> [aware |-> s.v.zone # "", t |-> s.v.t]]
    ELSE [ok |-> FALSE, dt |-> DatetimeMin]

\* get_timestamp: the sort key.  A value that is not a string has no
\* .replace (AttributeError), a malformed or empty string is a ValueError;
\* the bare except turns both into datetime.min.
get_timestamp(entry) ==
    LET ts == Get(entry.timestamp, JStr(""))
    IN  IF ~IsStr(ts) THEN DatetimeMin
        ELSE fromisoformat(ReplaceZ(ts)).dt

\* Whether the timestamp of an entry parses.
Parseable(entry) ==
    LET ts == Get(entry.timestamp, JStr(""))
    IN  IsStr(ts) /\ fromisoformat(ReplaceZ(ts)).ok

\* datetime.__lt__ raises TypeError between a naive and an aware value.
LtRaises(a, b) == a.aware # b.aware
Lt(a, b) == a.t < b.t

\* list.sort(key=...): the keys are computed first, then compared with <.
\* Every run of the sort on two or more keys compares a naive with an aware
\* key when both kinds are present, so the sort raises exactly then.
SortRaises(entries) ==
    \E i, j \in 1..Len(entries) :
        LtRaises(get_timestamp(entries[i]), get_timestamp(entries[j]))

\* Variant of InsertSorted that puts e in front of the elements it equals.
InsertSorted_Unstable(sorted, e) ==
    LET k == get_timestamp(e)
        after == {i \in 1..Len(sorted) : Lt(get_timestamp(sorted[i]), k)}
        n == IF after = {} THEN 0 ELSE CHOOSE i \in after : \A m \in after : m <= i
    IN  SubSeq(sorted, 1, n) \o <<e>> \o SubSeq(sorted, n + 1, Len(sorted))

\* Stable insertion: e goes behind every element that is not greater.
InsertSorted(sorted, e) ==
    LET k == get_timestamp(e)
        after == {i \in 1..Len(sorted) : ~Lt(k, get_timestamp(sorted[i]))}
        n == IF after = {} THEN 0 ELSE CHOOSE i \in after : \A m \in after : m <= i
    IN  SubSeq(sorted, 1, n) \o <<e>> \o SubSeq(sorted, n + 1, Len(sorted))

RECURSIVE StableSort(_)
StableSort(entries) ==
    IF entries = <<>> THEN <<>>
    ELSE InsertSorted(StableSort(SubSeq(entries, 1, Len(entries) - 1)),
                      entries[Len(entries)])

\* ---------------------------------------------------------------- renderer
\* format_timestamp: an ISO string is formatted; any other string is
\* sliced in the except branch; a value that is not a string reaches the
\* except branch too, where slicing it raises when it is truthy.
format_timestamp(ts_str) ==
    IF IsStr(ts_str)
    THEN [raised |-> FALSE,
          text |-> IF fromisoformat(ReplaceZ(ts_str)).ok THEN "HH:MM:SS.mmm"
                   ELSE IF Truthy(ts_str) THEN "prefix" ELSE "??:??:??"]
    ELSE [raised |-> Truthy(ts_str), text |-> "??:??:??"]

\* Variant of IsLLMQuery that looks at the source alone, as the footer does.
IsLLMQuery_SourceOnly(entry) ==
    Get(entry.source, JNull) = JStr("LLM")

\* The test print_entry uses to choose the LLM query block.
IsLLMQuery(entry) ==
    Get(entry.type, JNull) = JStr("log") /\ Get(entry.source, JNull) = JStr("LLM")

\* print_entry: what one entry adds to the output.
print_entry(entry, show_agent_inline) ==
    LET ts == format_timestamp(Get(entry.timestamp, JStr("")))
    IN  [raised |-> ts.raised,
         item |-> [item |-> "entry",
                   kind |-> IF IsLLMQuery(entry) THEN "ModelQuery" ELSE "PlainMessage",
                   tag |-> show_agent_inline,
                   agent |-> Get(entry.agent_name, JStr("?")),
                   entry |-> entry]]

\* print_agent_header: agent_name.upper() raises on a name that is not a
\* string.
HeaderRaises(agent_name) == ~IsStr(agent_name)
HeaderItem(agent_name) ==
    [item |-> "header", kind |-> "header", tag |-> FALSE, agent |-> agent_name,
     entry |-> EmptyObj]

\* The two loops of main over the merged timeline, from entry i on.
RECURSIVE RenderFrom(_, _, _, _, _)
RenderFrom(entries, i, group_by_agent, current_agent, out) ==
    IF i > Len(entries) THEN [crashed |-> FALSE, out |-> out]
    ELSE
        LET entry == entries[i]
            agent_name == Get(entry.agent_name, JStr("unknown"))
            changed == group_by_agent /\ agent_name # current_agent
            out1 == IF changed THEN Append(out, HeaderItem(agent_name)) ELSE out
            pe == print_entry(entry, ~group_by_agent)
        IN  IF changed /\ HeaderRaises(agent_name) THEN [crashed |-> TRUE, out |-> out]
            ELSE IF pe.raised THEN [crashed |-> TRUE, out |-> out1]
            ELSE RenderFrom(entries, i + 1, group_by_agent,
                            IF group_by_agent THEN agent_name ELSE current_agent,
                            Append(out1, pe.item))

\* The count main prints in the footer.
llm_queries(entries) ==
    Cardinality({i \in 1..Len(entries) : Get(entries[i].source, JNull) = JStr("LLM")})

NoFooter == [printed |-> FALSE, total |-> 0, llm_queries |-> 0]

\* ------------------------------------------------------------------- state
VARIABLES
    fileLen,        \* fileLen[f]: number of lines file f holds (readable ones)
    group_by_agent, \* TRUE: Grouped mode, FALSE: Timeline mode (-t)
    pc,             \* "read", "merged", "done", or an uncaught exception:
                    \* "sort_raised", "render_raised"
    fileIdx,        \* the file the loop of read_all_entries is at
    disk,           \* disk[f]: the lines of file f consumed so far
    errors,         \* the "Error reading <file>: <exception>" messages printed
    all_entries,    \* the list read_all_entries builds and sorts
    out,            \* the headers and entries printed so far
    footer,         \* the summary line
    text,           \* truncate: the text argument
    max_len,        \* truncate: the max_len argument
    tpc,            \* truncate: "idle", "input", "once" or "twice" applied
    once,           \* truncate(text, max_len)
    twice,          \* truncate(once, max_len)
    dir_exists,     \* os.path.exists(AGENT_LOGS_DIR)
    listdir,        \* os.listdir(AGENT_LOGS_DIR), in the order it lists them
    spc,            \* store functions: "idle", "start", "latest", "listed",
                    \* "found_arg", "found_latest"
    latest_uuid,    \* what get_latest_uuid returned
    uuids,          \* what list_available_uuids returned
    uuid,           \* the identifier main hands to find_agent_logs_for_uuid
    files           \* what find_agent_logs_for_uuid returned

viewerVars == <<fileLen, group_by_agent, pc, fileIdx, disk, errors, all_entries, out, footer>>
truncVars == <<text, max_len, tpc, once, twice>>
storeVars == <<dir_exists, listdir, spc, latest_uuid, uuids, uuid, files>>
toolVars == <<truncVars, storeVars>>
vars == <<viewerVars, truncVars, storeVars>>

\* The variables of the store functions while something else runs.
StoreIdle ==
    /\ dir_exists = FALSE
    /\ listdir = <<>>
    /\ spc = "idle"
    /\ latest_uuid = <<>>
    /\ uuids = <<>>
    /\ uuid = <<>>
    /\ files = <<>>

\* The variables of truncate while the viewer runs.
TruncIdle ==
    /\ text = <<>>
    /\ max_len = 0
    /\ tpc = "idle"
    /\ once = <<>>
    /\ twice = <<>>

RECURSIVE SumSeq(_)
SumSeq(s) == IF s = <<>> THEN 0 ELSE s[1] + SumSeq(Tail(s))

\* The located files: find_agent_logs_for_uuid returned at least one,
\* each with its own producer name.
FileLens ==
    {s \in UNION {[1..n -> 0..MaxLines] : n \in 1..MaxFiles} : SumSeq(s) <= MaxLines}

FileAgent(f) == AGENT_COLORS[f]

Init ==
    /\ fileLen \in FileLens
    /\ group_by_agent \in BOOLEAN
    /\ pc = "read"
    /\ fileIdx = 1
    /\ disk = [f \in 1..Len(fileLen) |-> <<>>]
    /\ errors = <<>>
    /\ all_entries = <<>>
    /\ out = <<>>
    /\ footer = NoFooter
    /\ TruncIdle
    /\ StoreIdle

Reading == pc = "read" /\ fileIdx <= Len(fileLen)

\* The entry the loop appends for a parsed object: agent_name defaulted from
\* the file, _source_file set (lineno records the line it came from).
MakeEntry(obj, f, n) ==
    [timestamp |-> obj.timestamp,
     agent_name |-> IF obj.agent_name.j = "absent" THEN JStr(FileAgent(f))
                    ELSE obj.agent_name,
     type |-> obj.type, source |-> obj.source, prompt |-> obj.prompt,
     response |-> obj.response, message |-> obj.message,
     source_file |-> f, lineno |-> n]

\* Variant of ExceptReport in which the exception leaves the file loop.
ExceptReport_AbortLoop(e) ==
    /\ errors' = Append(errors, [file |-> fileIdx, error |-> e])
    /\ fileIdx' = Len(fileLen) + 1
    /\ UNCHANGED all_entries

\* The except clause of the file loop: report the file, go to the next one.
\* What was appended before stays in all_entries.
ExceptReport(e) ==
    /\ errors' = Append(errors, [file |-> fileIdx, error |-> e])
    /\ fileIdx' = fileIdx + 1
    /\ UNCHANGED all_entries

\* One iteration of "for line in f".
ReadLine(line) ==
    /\ Reading
    /\ Len(disk[fileIdx]) < fileLen[fileIdx]
    /\ disk' = [disk EXCEPT ![fileIdx] = Append(@, line)]
    /\ LET entry == parse_log_entry(line)
       IN  IF ~entry.some \/ ~entry.truthy
           THEN UNCHANGED <<all_entries, errors, fileIdx>>
           ELSE IF ~entry.isdict
           THEN ExceptReport("TypeError")
           ELSE /\ all_entries' = Append(all_entries,
                        MakeEntry(entry.obj, fileIdx, Len(disk[fileIdx]) + 1))
                /\ UNCHANGED <<errors, fileIdx>>
    /\ UNCHANGED <<fileLen, group_by_agent, pc, out, footer, toolVars>>

\* open() or the read that follows the lines consumed so far raises
\* (OSError, UnicodeDecodeError).
ReadError ==
    /\ Reading
    /\ ExceptReport("OSError")
    /\ UNCHANGED <<fileLen, group_by_agent, pc, disk, out, footer, toolVars>>

\* The file is exhausted: the loop goes to the next file.
EndOfFile ==
    /\ Reading
    /\ Len(disk[fileIdx]) = fileLen[fileIdx]
    /\ fileIdx' = fileIdx + 1
    /\ UNCHANGED <<fileLen, group_by_agent, pc, disk, errors, all_entries, out, footer,
                   toolVars>>

\* all_entries.sort(key=get_timestamp); return all_entries.
Merge ==
    /\ pc = "read"
    /\ fileIdx > Len(fileLen)
    /\ IF SortRaises(all_entries)
       THEN pc' = "sort_raised" /\ UNCHANGED all_entries
       ELSE pc' = "merged" /\ all_entries' = StableSort(all_entries)
    /\ UNCHANGED <<fileLen, group_by_agent, fileIdx, disk, errors, out, footer, toolVars>>

\* main after read_all_entries returned: the empty case, the render loop
\* and the summary.
Render ==
    /\ pc = "merged"
    /\ IF all_entries = <<>>
       THEN pc' = "done" /\ UNCHANGED <<out, footer>>
       ELSE LET r == RenderFrom(all_entries, 1, group_by_agent, JNull, <<>>)
            IN  /\ out' = r.out
                /\ IF r.crashed
                   THEN pc' = "render_raised" /\ UNCHANGED footer
                   ELSE /\ pc' = "done"
                        /\ footer' = [printed |-> TRUE, total |-> Len(all_entries),
                                      llm_queries |-> llm_queries(all_entries)]
    /\ UNCHANGED <<fileLen, group_by_agent, fileIdx, disk, errors, all_entries, toolVars>>

Next ==
    \/ \E line \in Lines : ReadLine(line)
    \/ ReadError
    \/ EndOfFile
    \/ Merge
    \/ Render

Spec == Init /\ [][Next]_vars

\* ------------------------------------------------------------------ claims
Finished == pc \in {"done", "sort_raised", "render_raised"}
LoopDone == pc # "read"
Returned == pc \in {"merged", "done", "render_raised"}
\* Every located file was read without a reported error.
CleanRead == errors = <<>>

\* Position p of the output shows the entry at position i of all_entries.
Shows(p, i) ==
    /\ out[p].item = "entry"
    /\ out[p].entry = all_entries[i]

\* Entry i is printed somewhere before entry j.
EmittedBefore(i, j) ==
    \E p, q \in 1..Len(out) : p < q /\ Shows(p, i) /\ Shows(q, j)

Instant(e) == get_timestamp(e).t

\* C1 (order invariant): when a run that read its files without error has
\* ended, any two entries that were read and whose timestamps both parse,
\* the first naming an earlier instant than the second, were printed in that
\* order, in either mode.
C1_OrderInvariant ==
    Finished /\ CleanRead =>
        \A i, j \in 1..Len(all_entries) :
            /\ Parseable(all_entries[i])
            /\ Parseable(all_entries[j])
            /\ Instant(all_entries[i]) < Instant(all_entries[j])
            => EmittedBefore(i, j)

\* C2 (sentinel ordering): once the files are read, without error, an entry
\* whose timestamp is missing or does not parse and an entry whose timestamp
\* parses are both in the timeline read_all_entries returns, the former
\* before the latter.
C2_SentinelOrdering ==
    LoopDone /\ CleanRead =>
        \A i, j \in 1..Len(all_entries) :
            ~Parseable(all_entries[i]) /\ Parseable(all_entries[j])
            => Returned /\ i < j

\* C3 (an unparseable timestamp is never an error): the merge step never
\* ends in an exception, whatever mix of timestamps was read from files that
\* were read without error.
C3_MergeNeverRaises == CleanRead => pc # "sort_raised"

\* The lines of file f that hold a non-empty JSON object, by line number.
RecordLines(f) ==
    {n \in 1..Len(disk[f]) : disk[f][n].kind = "object" /\ disk[f][n].obj # EmptyObj}

\* The lines of file f that are corrupt: not JSON, or JSON that is no object.
CorruptLines(f) ==
    {n \in 1..Len(disk[f]) : disk[f][n].kind \in {"garbage", "number"}}

\* The line numbers of the entries all_entries holds from file f.
EntryLines(f) ==
    {all_entries[i].lineno : i \in {k \in 1..Len(all_entries) : all_entries[k].source_file = f}}

EntryCount(f) ==
    Cardinality({k \in 1..Len(all_entries) : all_entries[k].source_file = f})

IOFailed(f) == \E k \in 1..Len(errors) : errors[k].file = f /\ errors[k].error = "OSError"
Reported(f) == \E k \in 1..Len(errors) : errors[k].file = f

\* C4 (skip-on-malformed): once the files are read, a file that met no I/O
\* error and in which one line was corrupt and every other line a record
\* was read to its end and yielded exactly the entries of its record lines;
\* the run did not fail in the merge.
C4_SkipOnMalformed ==
    LoopDone =>
        \A f \in 1..Len(fileLen) :
            /\ ~IOFailed(f)
            /\ Cardinality(CorruptLines(f)) = 1
            /\ RecordLines(f) \cup CorruptLines(f) = 1..Len(disk[f])
            => /\ Len(disk[f]) = fileLen[f]
               /\ EntryLines(f) = RecordLines(f)
               /\ EntryCount(f) = Cardinality(RecordLines(f))

\* The producer name the Grouped loop reads from entry i.
Producer(i) == Get(all_entries[i].agent_name, JStr("unknown"))

\* Number of maximal runs of consecutive entries sharing a producer name.
NumRuns ==
    Cardinality({i \in 1..Len(all_entries) : i = 1 \/ Producer(i) # Producer(i - 1)})

NumHeaders == Cardinality({p \in 1..Len(out) : out[p].item = "header"})

\* C5 (Grouped-mode header law): when a Grouped rendering of files read
\* without error has completed, the output starts with a header, there are
\* as many headers as maximal runs of one producer, and a header stands
\* exactly before the first entry of each run.
C5_HeaderLaw ==
    pc = "done" /\ CleanRead /\ group_by_agent /\ all_entries # <<>> =>
        /\ out[1].item = "header"
        /\ NumHeaders = NumRuns
        /\ \A p \in 1..Len(out) :
               out[p].item = "header" =>
                   /\ p < Len(out)
                   /\ out[p + 1].item = "entry"
                   /\ out[p + 1].agent = out[p].agent
                   /\ p > 1 => out[p - 1].agent # out[p].agent

SameKey(i, j) == get_timestamp(all_entries[i]) = get_timestamp(all_entries[j])
SameFile(i, j) == all_entries[i].source_file = all_entries[j].source_file

\* C6 (stability): in the timeline read_all_entries returns, two entries of
\* one file whose sort keys are equal stand in the order of their lines.
C6_Stability ==
    Returned =>
        \A i, j \in 1..Len(all_entries) :
            i < j /\ SameFile(i, j) /\ SameKey(i, j)
            => all_entries[i].lineno < all_entries[j].lineno

\* A returned timeline that holds two entries of one file with the same
\* parsed timestamp.
C6_Witness ==
    /\ Returned
    /\ \E i, j \in 1..Len(all_entries) :
           /\ i < j /\ SameFile(i, j) /\ SameKey(i, j)
           /\ Parseable(all_entries[i]) /\ Parseable(all_entries[j])

IsEntryItem(x) == x.item = "entry"
EmittedEntries ==
    LET sel == SelectSeq(out, IsEntryItem)
    IN  [p \in 1..Len(sel) |-> sel[p].entry]

\* C7 (the renderer never drops an entry): when rendering of files read
\* without error has ended, the entries printed are the merged timeline,
\* each once and in its order; in Timeline mode there is no header and every
\* entry has the inline tag.
C7_NeverDrops ==
    pc \in {"done", "render_raised"} /\ CleanRead =>
        /\ EmittedEntries = all_entries
        /\ ~group_by_agent =>
               \A p \in 1..Len(out) : out[p].item = "entry" /\ out[p].tag

\* C8 as stated: a file whose open or read failed contributes no entry, and
\* every other file that reported no error was read in full and contributes
\* the entries of all its record lines.
C8_FailedFileContributesNothing ==
    LoopDone =>
        \A f \in 1..Len(fileLen) :
            IOFailed(f) =>
                /\ EntryCount(f) = 0
                /\ \A g \in 1..Len(fileLen) :
                       g # f /\ ~Reported(g) =>
                           /\ Len(disk[g]) = fileLen[g]
                           /\ EntryLines(g) = RecordLines(g)

\* C8 (amended): once the loop over the files has ended, every file
\* contributes exactly the entries of the record lines read from it before
\* its failure, if any; a file that was not read to its end was reported,
\* once; a file without a report was read in full.
C8_FailureIsolation ==
    LoopDone =>
        \A f \in 1..Len(fileLen) :
            /\ EntryLines(f) = RecordLines(f)
            /\ EntryCount(f) = Cardinality(RecordLines(f))
            /\ ~Reported(f) => Len(disk[f]) = fileLen[f]
            /\ Cardinality({k \in 1..Len(errors) : errors[k].file = f}) <= 1

\* The loop has ended, a file failed to read after it gave an entry, and a
\* later file was read in full and gave an entry.
C8_Witness ==
    /\ LoopDone
    /\ \E f, g \in 1..Len(fileLen) :
           /\ f < g
           /\ IOFailed(f) /\ EntryCount(f) >= 1
           /\ ~Reported(g) /\ EntryCount(g) >= 1 /\ Len(disk[g]) = fileLen[g]

Carries(field) == field.j # "absent"

\* C9 as stated: a printed entry is a ModelQuery block exactly when it
\* carries a prompt and a response, or the marker with the source "LLM".
C9_PromptResponseClassifies ==
    \A p \in 1..Len(out) :
        out[p].item = "entry" =>
            (out[p].kind = "ModelQuery"
             <=> \/ Carries(out[p].entry.prompt) /\ Carries(out[p].entry.response)
                 \/ /\ out[p].entry.type = JStr("log")
                    /\ out[p].entry.source = JStr("LLM"))

\* C9 (amended): a printed entry is a ModelQuery block exactly when its type
\* is "log" and its source is "LLM"; any other printed entry is a
\* PlainMessage line, whether or not it carries a prompt and a response.
C9_Classification ==
    \A p \in 1..Len(out) :
        out[p].item = "entry" =>
            IF out[p].entry.type = JStr("log") /\ out[p].entry.source = JStr("LLM")
            THEN out[p].kind = "ModelQuery"
            ELSE out[p].kind = "PlainMessage"

\* The output shows a ModelQuery block and a plain line for an entry that
\* carries a prompt and a response.
C9_Witness ==
    /\ \E p \in 1..Len(out) : out[p].item = "entry" /\ out[p].kind = "ModelQuery"
    /\ \E p \in 1..Len(out) :
           /\ out[p].item = "entry" /\ out[p].kind = "PlainMessage"
           /\ Carries(out[p].entry.prompt) /\ Carries(out[p].entry.response)

\* C10 (summary footer): after files read without error, the footer's total
\* is the number of entries printed and its query count the number of
\* ModelQuery blocks printed.
C10_Footer ==
    footer.printed /\ CleanRead =>
        /\ footer.total = Len(EmittedEntries)
        /\ footer.llm_queries =
               Cardinality({p \in 1..Len(out) : out[p].kind = "ModelQuery"})

\* ---------------------------------------------------------------- truncate
\* A text is a sequence of characters.
Chars == {"a", "."}
Ellipsis == <<".", ".", ".">>

Texts == UNION {[1..n -> Chars] : n \in 0..MaxText}

\* text[:k]: a negative k counts from the end.
PyPrefix(s, k) ==
    IF k >= 0 THEN SubSeq(s, 1, IF k < Len(s) THEN k ELSE Len(s))
    ELSE SubSeq(s, 1, IF Len(s) + k > 0 THEN Len(s) + k ELSE 0)

\* Variant of truncate that keeps one character too many.
truncate_OffByOne(s, n) ==
    IF s = <<>> THEN <<>>
    ELSE IF Len(s) <= n THEN s
    ELSE PyPrefix(s, n - 2) \o Ellipsis

\* Variant of truncate that leaves no room for the ellipsis.
truncate_NoRoom(s, n) ==
    IF s = <<>> THEN <<>>
    ELSE IF Len(s) <= n THEN s
    ELSE PyPrefix(s, n) \o Ellipsis

truncate(s, n) ==
    IF s = <<>> THEN <<>>
    ELSE IF Len(s) <= n THEN s
    ELSE PyPrefix(s, n - 3) \o Ellipsis

\* The variables of the viewer while another function is exercised.
ViewerIdle ==
    /\ fileLen = <<0>>
    /\ group_by_agent = TRUE
    /\ pc = "idle"
    /\ fileIdx = 1
    /\ disk = <<<<>>>>
    /\ errors = <<>>
    /\ all_entries = <<>>
    /\ out = <<>>
    /\ footer = NoFooter

InitTruncate ==
    /\ ViewerIdle
    /\ text \in Texts
    /\ max_len \in 0..MaxLenArg
    /\ tpc = "input"
    /\ once = <<>>
    /\ twice = <<>>
    /\ StoreIdle

TruncateOnce ==
    /\ tpc = "input"
    /\ once' = truncate(text, max_len)
    /\ tpc' = "once"
    /\ UNCHANGED <<text, max_len, twice, viewerVars, storeVars>>

TruncateTwice ==
    /\ tpc = "once"
    /\ twice' = truncate(once, max_len)
    /\ tpc' = "twice"
    /\ UNCHANGED <<text, max_len, once, viewerVars, storeVars>>

NextTruncate == TruncateOnce \/ TruncateTwice

SpecTruncate == InitTruncate /\ [][NextTruncate]_vars

Truncated == tpc \in {"once", "twice"}

\* C11 as stated: for every text and every max_len, truncate returns the
\* text unchanged when it is not longer than max_len, and otherwise its first
\* max_len - 3 characters and the ellipsis, max_len characters in all.
C11_LengthLawAnyMaxLen ==
    Truncated =>
        IF Len(text) <= max_len THEN once = text
        ELSE /\ once = SubSeq(text, 1, max_len - 3) \o Ellipsis
             /\ Len(once) = max_len

HelloWorld == <<"h", "e", "l", "l", "o", " ", "w", "o", "r", "l", "d">>

\* C11 (amended): the same law for every text and every max_len of at
\* least 3, the length of the ellipsis; truncate("hello world", 8) is
\* "hello...".
C11_LengthLaw ==
    /\ Truncated /\ max_len >= 3 =>
           IF Len(text) <= max_len THEN once = text
           ELSE /\ once = SubSeq(text, 1, max_len - 3) \o Ellipsis
                /\ Len(once) = max_len
    /\ Truncated => truncate(HelloWorld, 8) = <<"h", "e", "l", "l", "o">> \o Ellipsis

\* truncate has cut a text down to max_len, keeping some of its characters.
C11_Witness ==
    /\ Truncated
    /\ max_len > 3
    /\ Len(text) > max_len
    /\ Len(once) = max_len

\* C12 (idempotence): for max_len >= 3, truncating the result again returns
\* it as it is, and the result is not longer than max_len.
C12_Idempotent ==
    tpc = "twice" /\ max_len >= 3 =>
        /\ twice = once
        /\ Len(once) <= max_len

\* truncate was applied twice to a text it had to cut.
C12_Witness ==
    /\ tpc = "twice"
    /\ max_len >= 3
    /\ Len(text) > max_len
    /\ once # text

(***************************************************************************)
(* The store functions: get_latest_uuid, list_available_uuids and          *)
(* find_agent_logs_for_uuid over the files of AGENT_LOGS_DIR.              *)
(***************************************************************************)

\* os.path.getmtime: seconds since the epoch, negative for a file dated
\* before 1970.
Mtimes == -1..MaxMtime

HexDigits == {"0", "1", "2", "3", "4", "5", "6", "7", "8", "9",
              "a", "b", "c", "d", "e", "f"}
HyphenAt == {9, 14, 19, 24}
UuidLen == 36

\* The 36 characters 8-4-4-4-12 whose digits are all c.
UuidOf(c) == [i \in 1..UuidLen |-> IF i \in HyphenAt THEN "-" ELSE c]

Pre == <<"p", "r", "e">>
Post == <<"p", "o", "s", "t">>
Underscore == <<"_">>
Jsonl == <<".", "j", "s", "o", "n", "l">>
Json == <<".", "j", "s", "o", "n">>

\* The names a file of the directory may carry, by their parts: the head
\* digit ("g" is no hexadecimal digit), what follows the head, the agent and
\* the extension.
FileNames ==
    { [head |-> "a", sep |-> Underscore, agent |-> Pre, ext |-> Jsonl],
      [head |-> "a", sep |-> Underscore, agent |-> Post, ext |-> Jsonl],
      [head |-> "b", sep |-> Underscore, agent |-> Pre, ext |-> Jsonl],
      [head |-> "a", sep |-> <<>>, agent |-> <<>>, ext |-> Jsonl],
      [head |-> "b", sep |-> Underscore, agent |-> Post, ext |-> Json],
      [head |-> "g", sep |-> Underscore, agent |-> Pre, ext |-> Jsonl] }

\* The file name as os.listdir yields it.
NameOf(n) == UuidOf(n.head) \o n.sep \o n.agent \o n.ext

StoreFiles == {[name |-> n, mtime |-> m] : n \in FileNames, m \in Mtimes}

\* The directory listings: files of distinct names, in any order.
Listings ==
    UNION { {l \in [1..k -> StoreFiles] :
                \A i, j \in 1..k : i # j => l[i].name # l[j].name}
            : k \in 0..MaxStoreFiles }

startswith(f, prefix) ==
    /\ Len(f) >= Len(prefix)
    /\ SubSeq(f, 1, Len(prefix)) = prefix

endswith(f, suffix) ==
    /\ Len(f) >= Len(suffix)
    /\ SubSeq(f, Len(f) - Len(suffix) + 1, Len(f)) = suffix

\* UUID_PATTERN.match(f): the pattern is anchored at the start only.
UuidMatch(f) ==
    /\ Len(f) >= UuidLen
    /\ \A i \in 1..UuidLen :
          IF i \in HyphenAt THEN f[i] = "-" ELSE f[i] \in HexDigits

\* match.group(1)
Group1(f) == SubSeq(f, 1, UuidLen)

\* match and f.endswith('.jsonl')
IsLogFile(f) == UuidMatch(f) /\ endswith(f, Jsonl)

\* The None of get_latest_uuid.
None == <<>>

\* get_latest_uuid's loop from the i-th listed file on, with the
\* latest_uuid and latest_mtime it holds there.
RECURSIVE LatestFrom(_, _, _, _)
LatestFrom(l, i, luuid, lmtime) ==
    IF i > Len(l) THEN luuid
    ELSE LET f == NameOf(l[i].name)
             mtime == l[i].mtime
         IN  IF IsLogFile(f) /\ mtime > lmtime
             THEN LatestFrom(l, i + 1, Group1(f), mtime)
             ELSE LatestFrom(l, i + 1, luuid, lmtime)

get_latest_uuid ==
    IF ~dir_exists THEN None
    ELSE LatestFrom(listdir, 1, None, 0)

Max(a, b) == IF a >= b THEN a ELSE b

\* uuid_info after the first k listed files: the defaultdict as the sequence
\* of its items in insertion order, a new item starting from mtime 0, count 0.
RECURSIVE UuidInfo(_, _)
UuidInfo(l, k) ==
    IF k = 0 THEN <<>>
    ELSE LET info == UuidInfo(l, k - 1)
             f == NameOf(l[k].name)
             mtime == l[k].mtime
             u == Group1(f)
             Known == {i \in 1..Len(info) : info[i].uuid = u}
         IN  IF ~IsLogFile(f) THEN info
             ELSE IF Known = {}
             THEN Append(info, [uuid |-> u, mtime |-> Max(0, mtime), count |-> 1])
             ELSE LET i == CHOOSE i \in Known : TRUE
                  IN  [info EXCEPT ![i] = [uuid |-> u,
                                           mtime |-> Max(@.mtime, mtime),
                                           count |-> @.count + 1]]

\* datetime.fromtimestamp: the instant that many seconds after the epoch.
fromtimestamp(mtime) == [epoch_seconds |-> mtime]

DtLess(a, b) == a.epoch_seconds < b.epoch_seconds

\* One step of result.sort(key=x[1], reverse=True): the sort is stable, rows
\* of equal time keep the order they had.
InsertNewestFirst(sorted, row) ==
    LET Before == {i \in 1..Len(sorted) : ~DtLess(sorted[i].dt, row.dt)}
        k == Cardinality(Before)
    IN  SubSeq(sorted, 1, k) \o <<row>> \o SubSeq(sorted, k + 1, Len(sorted))

RECURSIVE SortNewestFirst(_, _)
SortNewestFirst(rows, k) ==
    IF k = 0 THEN <<>>
    ELSE InsertNewestFirst(SortNewestFirst(rows, k - 1), rows[k])

list_available_uuids ==
    IF ~dir_exists THEN <<>>
    ELSE LET info == UuidInfo(listdir, Len(listdir))
             result == [i \in 1..Len(info) |->
                           [uuid |-> info[i].uuid,
                            dt |-> fromtimestamp(info[i].mtime),
                            count |-> info[i].count]]
         IN  SortNewestFirst(result, Len(result))

\* f[a:-6] for a sequence: from the a-th character (from 0) to the sixth
\* from the end.
PySlice(f, a, fromEnd) == SubSeq(f, a + 1, Len(f) - fromEnd)

AGENT_LOGS_DIR == "agent_logs"

\* os.path.join(AGENT_LOGS_DIR, f)
Join(dir, f) == [dir |-> dir, file |-> f]

\* The (full_path, agent_name, mtime) triples after the first k listed files.
RECURSIVE Triples(_, _, _)
Triples(l, k, prefix) ==
    IF k = 0 THEN <<>>
    ELSE LET f == NameOf(l[k].name)
         IN  IF startswith(f, prefix) /\ endswith(f, Jsonl)
             THEN Append(Triples(l, k - 1, prefix),
                         [full_path |-> Join(AGENT_LOGS_DIR, f),
                          agent_name |-> PySlice(f, Len(prefix), Len(Jsonl)),
                          mtime |-> l[k].mtime])
             ELSE Triples(l, k - 1, prefix)

\* One step of files.sort(key=x[2]): stable, ascending.
InsertOldestFirst(sorted, t) ==
    LET Before == {i \in 1..Len(sorted) : sorted[i].mtime <= t.mtime}
        k == Cardinality(Before)
    IN  SubSeq(sorted, 1, k) \o <<t>> \o SubSeq(sorted, k + 1, Len(sorted))

RECURSIVE SortOldestFirst(_, _)
SortOldestFirst(ts, k) ==
    IF k = 0 THEN <<>>
    ELSE InsertOldestFirst(SortOldestFirst(ts, k - 1), ts[k])

\* find_agent_logs_for_uuid taking every file whose name starts with the
\* identifier, separator or not.
find_agent_logs_for_uuid_NoSeparator(u) ==
    IF ~dir_exists THEN <<>>
    ELSE LET ts == Triples(listdir, Len(listdir), u)
             sorted == SortOldestFirst(ts, Len(ts))
         IN  [i \in 1..Len(sorted) |->
                 [full_path |-> sorted[i].full_path,
                  agent_name |-> sorted[i].agent_name]]

find_agent_logs_for_uuid(u) ==
    IF ~dir_exists THEN <<>>
    ELSE LET ts == Triples(listdir, Len(listdir), u \o Underscore)
             sorted == SortOldestFirst(ts, Len(ts))
         IN  [i \in 1..Len(sorted) |->
                 [full_path |-> sorted[i].full_path,
                  agent_name |-> sorted[i].agent_name]]

\* The conversation arguments main accepts: those UUID_PATTERN matches.
Arguments == {u \in {UuidOf("a"), UuidOf("b"), UuidOf("g")} : UuidMatch(u)}

InitStore ==
    /\ ViewerIdle
    /\ TruncIdle
    /\ dir_exists \in BOOLEAN
    /\ listdir \in (IF dir_exists THEN Listings ELSE {<<>>})
    /\ spc = "start"
    /\ latest_uuid = None
    /\ uuids = <<>>
    /\ uuid = <<>>
    /\ files = <<>>

\* The three functions run in turn over one content of the directory.
GetLatestUuid ==
    /\ spc = "start"
    /\ latest_uuid' = get_latest_uuid
    /\ spc' = "latest"
    /\ UNCHANGED <<dir_exists, listdir, uuids, uuid, files, viewerVars, truncVars>>

ListAvailableUuids ==
    /\ spc = "latest"
    /\ uuids' = list_available_uuids
    /\ spc' = "listed"
    /\ UNCHANGED <<dir_exists, listdir, latest_uuid, uuid, files, viewerVars, truncVars>>

\* main with a conversation argument.
FindForArgument(arg) ==
    /\ spc = "listed"
    /\ uuid' = arg
    /\ files' = find_agent_logs_for_uuid(arg)
    /\ spc' = "found_arg"
    /\ UNCHANGED <<dir_exists, listdir, latest_uuid, uuids, viewerVars, truncVars>>

\* main without one: the latest conversation, if there is one.
FindForLatest ==
    /\ spc = "listed"
    /\ latest_uuid # None
    /\ uuid' = latest_uuid
    /\ files' = find_agent_logs_for_uuid(latest_uuid)
    /\ spc' = "found_latest"
    /\ UNCHANGED <<dir_exists, listdir, latest_uuid, uuids, viewerVars, truncVars>>

NextStore ==
    \/ GetLatestUuid
    \/ ListAvailableUuids
    \/ \E arg \in Arguments : FindForArgument(arg)
    \/ FindForLatest

SpecStore == InitStore /\ [][NextStore]_vars

(***************************************************************************)
(* Claims about the store functions.                                       *)
(***************************************************************************)

\* The listed files whose name starts with a canonical UUID and ends with
\* the log extension, told by the parts of the name.
Matching ==
    {i \in 1..Len(listdir) : /\ listdir[i].name.head \in HexDigits
                             /\ listdir[i].name.ext = Jsonl}

\* The identifier the name of the i-th listed file starts with.
IdOf(i) == UuidOf(listdir[i].name.head)

Greatest(i, among) == \A j \in among : listdir[j].mtime <= listdir[i].mtime

LatestReturned == spc \in {"latest", "listed", "found_arg", "found_latest"}

\* C13: when the directory exists and holds at least one file whose name
\* starts with a canonical UUID and ends with the log extension,
\* get_latest_uuid returns the identifier of a file of greatest modification
\* time, whatever that time is; it returns None only when the directory is
\* absent or holds no such file.
C13_LocateLatest ==
    LatestReturned =>
        IF dir_exists /\ Matching # {}
        THEN \E i \in Matching : Greatest(i, Matching) /\ latest_uuid = IdOf(i)
        ELSE latest_uuid = None

ListReturned == spc \in {"listed", "found_arg", "found_latest"}

\* The conversation identifiers of the store and the files of one of them.
Ids == {IdOf(i) : i \in Matching}
FilesOf(u) == {i \in Matching : IdOf(i) = u}

Rows == 1..Len(uuids)

\* C14: list_available_uuids returns exactly one row per conversation
\* identifier of the store's log files; the row's time is the greatest
\* modification time of that identifier's files and its count the number of
\* those files; the rows are sorted by time descending; the result is empty
\* when the directory is absent or empty.
C14_ConversationIndex ==
    ListReturned =>
        IF ~dir_exists \/ listdir = <<>> THEN uuids = <<>>
        ELSE /\ {uuids[r].uuid : r \in Rows} = Ids
             /\ Len(uuids) = Cardinality(Ids)
             /\ \A r \in Rows :
                   /\ \E i \in FilesOf(uuids[r].uuid) :
                         /\ Greatest(i, FilesOf(uuids[r].uuid))
                         /\ uuids[r].dt.epoch_seconds = listdir[i].mtime
                   /\ uuids[r].count = Cardinality(FilesOf(uuids[r].uuid))
             /\ \A r1, r2 \in Rows :
                   r1 < r2 => uuids[r1].dt.epoch_seconds >= uuids[r2].dt.epoch_seconds

FindReturned == spc \in {"found_arg", "found_latest"}

\* The i-th listed file's name begins with u followed by '_' and ends with
\* '.jsonl', told by the parts of the name.
Belongs(i, u) ==
    /\ UuidOf(listdir[i].name.head) = u
    /\ listdir[i].name.sep = Underscore
    /\ listdir[i].name.ext = Jsonl

Returned_(i) == {r \in 1..Len(files) : files[r].full_path.file = NameOf(listdir[i].name)}

\* The listed file the r-th returned file is.
ListedAs(r) ==
    CHOOSE i \in 1..Len(listdir) : files[r].full_path.file = NameOf(listdir[i].name)

\* C15: find_agent_logs_for_uuid(id) returns a file if and only if it is in
\* the agent-log directory and its name begins with id followed by '_' and
\* ends with '.jsonl'; the producer name of each returned file is the
\* substring between separator and extension; the returned files are in
\* ascending order of modification time.
C15_MatchingRule ==
    FindReturned =>
        /\ \A i \in 1..Len(listdir) :
              Cardinality(Returned_(i)) = IF Belongs(i, uuid) THEN 1 ELSE 0
        /\ \A r \in 1..Len(files) :
              /\ files[r].full_path.dir = "agent_logs"
              /\ \E i \in 1..Len(listdir) : r \in Returned_(i)
              /\ files[r].agent_name = listdir[ListedAs(r)].name.agent
        /\ \A r1, r2 \in 1..Len(files) :
              r1 < r2 => listdir[ListedAs(r1)].mtime <= listdir[ListedAs(r2)].mtime

\* Two files of the conversation returned against the order of the listing,
\* a file of the same identifier without separator left out.
C15_Witness ==
    /\ FindReturned
    /\ Len(files) = 2
    /\ ListedAs(1) > ListedAs(2)
    /\ files[1].agent_name # files[2].agent_name
    /\ \E i \in 1..Len(listdir) :
          /\ UuidOf(listdir[i].name.head) = uuid
          /\ ~Belongs(i, uuid)

\* C16: if get_latest_uuid returns an identifier, find_agent_logs_for_uuid
\* on it returns at least one file: a run without conversation argument that
\* found a latest conversation never ends in "No log files found".
C16_LatestThenLocate == spc = "found_latest" => files # <<>>

\* The newest log file of the store is dated after the epoch.
NewestAfterEpoch == \E i \in Matching : listdir[i].mtime > 0

\* C17: for every non-empty store, ties of the greatest modification time
\* included, the first row of list_available_uuids names the identifier
\* get_latest_uuid returns.
C17_ListLatestAgree ==
    ListReturned /\ NewestAfterEpoch /\ uuids # <<>> => uuids[1].uuid = latest_uuid

====
